---- MODULE Spec2Model ----
(***************************************************************************)
(* Tenant router of the archery-club application (middleware.ts) and the  *)
(* organization store it reads.                                            *)
(*                                                                         *)
(* Strings are sequences of tokens.  A token is an atomic piece of text:   *)
(* a host label ("b", "c"), the separator ".", a URL scheme prefix         *)
(* ("https://"), or a path piece ("/", "dashboard", "api", ...).  The      *)
(* string functions of the code (startsWith, endsWith, includes, replace)  *)
(* are computed on those sequences as JavaScript computes them on          *)
(* characters.                                                             *)
(***************************************************************************)
EXTENDS Integers, Sequences, FiniteSets, TLC

VARIABLES env, orgs, pc, req, session, lookup, requestHeaders, response,
          details, subscriptions, reg, prev, peer, calls, provider

vars == <<env, orgs, pc, req, session, lookup, requestHeaders, response,
          details, subscriptions, reg, prev, peer, calls, provider>>

\* the request context of the middleware; calls counts the fetches the
\* invocation has issued and names the flow it entered
mwVars == <<pc, req, session, lookup, requestHeaders, response, calls>>

\* the remaining organization columns, the subscriptions table and the
\* browser pages of the registration and onboarding flows
regVars == <<details, subscriptions, reg>>

\* a remembered earlier request with its decision, the context of a
\* second invocation of the middleware that is in flight at the same time,
\* and the state of the AuthProvider component of a browser page
obsVars == <<prev, peer, provider>>

\* ------------------------------------------------------------------ bounds
MaxLabels == 4
MaxTail == 1
MaxEvents == 3

\* ------------------------------------------------------- string functions
StartsWith(s, p) == Len(p) <= Len(s) /\ SubSeq(s, 1, Len(p)) = p

EndsWith(s, p) == Len(p) <= Len(s) /\ SubSeq(s, Len(s) - Len(p) + 1, Len(s)) = p

Includes(s, t) == \E i \in 1..Len(s) : s[i] = t

\* position of the first occurrence of p in s, 0 when there is none
IndexOf(s, p) ==
  LET hits == {i \in 1..(Len(s) - Len(p) + 1) : SubSeq(s, i, i + Len(p) - 1) = p}
  IN IF hits = {} THEN 0 ELSE CHOOSE i \in hits : \A j \in hits : i <= j

\* String.prototype.replace with a string pattern: the first occurrence only
Replace(s, p, r) ==
  LET i == IndexOf(s, p)
  IN IF i = 0 THEN s
     ELSE SubSeq(s, 1, i - 1) \o r \o SubSeq(s, i + Len(p), Len(s))

RECURSIVE Join(_)
Join(labels) ==
  IF Len(labels) = 0 THEN <<>>
  ELSE IF Len(labels) = 1 THEN <<labels[1]>>
  ELSE <<labels[1], ".">> \o Join(Tail(labels))

\* ----------------------------------------------------------------- inputs
Labels == {"b", "c"}

LabelSeqs == UNION {[1..n -> Labels] : n \in 0..MaxLabels}

\* the Host header; <<>> is the missing header (?? '')
Hostnames == {Join(l) : l \in LabelSeqs}

Heads == {<<>>, <<"dashboard">>, <<"login">>, <<"api">>, <<"_next">>, <<"static">>}

Tails == UNION {[1..n -> {".", "x"}] : n \in 0..MaxTail}

Pathnames == {<<"/">> \o h \o t : h \in Heads, t \in Tails}

\* process.env.NEXT_PUBLIC_APP_URL when the variable is not set
Undefined == <<"undefined">>

\* what the auth service holds for the caller of a request: a session or none
SessionStates == {"session", "null"}

\* a header map holds no value or one value under each name; a request
\* normally arrives without x-organization-* headers
Headers0 == [xOrganizationId |-> {}, xOrganizationSubdomain |-> {}]

\* x-organization-* values written by the client into its own request
ClientTenantHeaders == [xOrganizationId |-> {"o1"}, xOrganizationSubdomain |-> {<<"b">>}]

NoRequest ==
  [hostname |-> <<>>, pathname |-> <<"/">>, auth |-> "null", headers |-> Headers0]

\* values of NEXT_PUBLIC_APP_URL
AppUrls == {Undefined, <<"https://", "b", ".", "c">>, <<"http://", "c">>}

Envs == [supabaseUrl : BOOLEAN, supabaseKey : BOOLEAN, appUrl : AppUrls]

\* ---------------------------------------------------- organization store
Statuses == {"active", "inactive", "trial"}

OrgIds == {"o1", "o2"}

\* the subdomain each row of the initial store may carry
SlugOf(id) == IF id = "o1" THEN <<"b">> ELSE <<"c">>

\* subdomain ~* '^[a-z0-9-]+$'
ValidSubdomain(s) == Len(s) >= 1 /\ ~Includes(s, ".")

OrgRows == [id : OrgIds, subdomain : {SlugOf(i) : i \in OrgIds}, status : Statuses]

\* UNIQUE(subdomain), PRIMARY KEY(id), the two CHECK constraints
StoreOK(store) ==
  /\ \A r \in store : ValidSubdomain(r.subdomain) /\ r.status \in Statuses
  /\ \A r1, r2 \in store : (r1.id = r2.id \/ r1.subdomain = r2.subdomain) => r1 = r2

Stores == {s \in SUBSET OrgRows : StoreOK(s) /\ \A r \in s : r.subdomain = SlugOf(r.id)}

\* ------------------------------------------------------------- middleware
\* The two collaborators are outside the repository.  getSession answers
\* with what the auth service holds for the caller (req.auth) or rejects;
\* the organization query answers from the store as written (.eq, .eq,
\* .single), or with an error value, or rejects.  A response records what
\* the code passes to NextResponse: next() with or without the header map,
\* or redirect() with the URL it built.
\* Headers.set(name, value)
SetOrgHeaders(h, id, sub) ==
  [h EXCEPT !.xOrganizationId = {id}, !.xOrganizationSubdomain = {sub}]

\* no response yet
Pending == [kind |-> "pending"]

\* data: null
NullRow == [id |-> "null", subdomain |-> <<>>, status |-> "null"]

Throw == [kind |-> "throw"]

\* NextResponse.next(): the request goes on, nothing attached
NextPlain == [kind |-> "next", init |-> FALSE, headers |-> Headers0]

\* NextResponse.next({ headers })
NextWith(h) == [kind |-> "next", init |-> TRUE, headers |-> h]

\* NextResponse.redirect(new URL(path, base)), base = [scheme, host]
Redirect(path, base) ==
  [kind |-> "redirect", scheme |-> base.scheme, host |-> base.host, path |-> path]

\* request.url
RequestUrl(r) == [scheme |-> "request", host |-> r.hostname]

\* `https://${appHost}`
HttpsBase(appHost) == [scheme |-> "https", host |-> appHost]

\* new URL('/', 'https://') is a TypeError: a special scheme needs a host
InvalidBase(base) == base.host = <<>>

\* the bypass test without its /api clause
IsStaticOrApiRoute_NoApi(pathname) ==
  \/ StartsWith(pathname, <<"/", "_next">>)
  \/ StartsWith(pathname, <<"/", "static">>)
  \/ Includes(pathname, ".")

\* the bypass test without its file-extension clause
IsStaticOrApiRoute_NoDot(pathname) ==
  \/ StartsWith(pathname, <<"/", "_next">>)
  \/ StartsWith(pathname, <<"/", "api">>)
  \/ StartsWith(pathname, <<"/", "static">>)

IsStaticOrApiRoute(pathname) ==
  \/ StartsWith(pathname, <<"/", "_next">>)
  \/ StartsWith(pathname, <<"/", "api">>)
  \/ StartsWith(pathname, <<"/", "static">>)
  \/ Includes(pathname, ".")

AppHost(appUrl) ==
  IF appUrl = Undefined THEN <<>>
  ELSE Replace(Replace(appUrl, <<"https://">>, <<>>), <<"http://">>, <<>>)

IsRootDomain(hostname, appHost) ==
  hostname = appHost \/ EndsWith(hostname, <<".">> \o appHost)

Subdomain(hostname, appHost) == Replace(hostname, <<".">> \o appHost, <<>>)

\* the root flow guarding the exact path /dashboard only
HandleRootDomain_Exact(r, sess, headers) ==
  IF r.pathname = <<"/", "dashboard">> /\ sess = "null"
  THEN Redirect(<<"/", "login">>, RequestUrl(r))
  ELSE NextWith(headers)

\* the root flow asking every visitor without a session to log in
HandleRootDomain_GateAll(r, sess, headers) ==
  IF sess = "null"
  THEN Redirect(<<"/", "login">>, RequestUrl(r))
  ELSE NextWith(headers)

HandleRootDomain(r, sess, headers) ==
  IF StartsWith(r.pathname, <<"/", "dashboard">>) /\ sess = "null"
  THEN Redirect(<<"/", "login">>, RequestUrl(r))
  ELSE NextWith(headers)

\* rows selected by .eq('subdomain', s).eq('status', 'active')
ActiveBySubdomain(store, s) == {o \in store : o.subdomain = s /\ o.status = "active"}

\* .single(): the row when exactly one is selected, an error value otherwise
Single(rows) ==
  IF Cardinality(rows) = 1
  THEN [data |-> CHOOSE o \in rows : TRUE, error |-> FALSE]
  ELSE [data |-> NullRow, error |-> TRUE]

\* the fallback sending the visitor to the login page of the main site
RootRedirect_Login(appHost) ==
  IF InvalidBase(HttpsBase(appHost)) THEN Throw
  ELSE Redirect(<<"/", "login">>, HttpsBase(appHost))

\* redirect to the main site, lines 54 and 76
RootRedirect(appHost) ==
  IF InvalidBase(HttpsBase(appHost)) THEN Throw
  ELSE Redirect(<<"/">>, HttpsBase(appHost))

\* a catch block that logs and rethrows
HandleSubdomainCatch_Rethrow(appHost) == Throw

\* the catch block of handleSubdomain, lines 74-77
HandleSubdomainCatch(appHost) == RootRedirect(appHost)

\* the tenant flow sending signed-in users on / to the login page
SubdomainDecision_ToLogin(r, sess, sub, appHost, res, headers) ==
  IF res.error \/ res.data = NullRow
  THEN RootRedirect(appHost)
  ELSE IF sess = "session" /\ r.pathname = <<"/">>
  THEN Redirect(<<"/", "login">>, RequestUrl(r))
  ELSE IF StartsWith(r.pathname, <<"/", "dashboard">>) /\ sess = "null"
  THEN Redirect(<<"/", "login">>, RequestUrl(r))
  ELSE NextWith(SetOrgHeaders(headers, res.data.id, sub))

\* the tenant flow without its authentication gate
SubdomainDecision_NoGate(r, sess, sub, appHost, res, headers) ==
  IF res.error \/ res.data = NullRow
  THEN RootRedirect(appHost)
  ELSE IF sess = "session" /\ r.pathname = <<"/">>
  THEN Redirect(<<"/", "dashboard">>, RequestUrl(r))
  ELSE NextWith(SetOrgHeaders(headers, res.data.id, sub))

\* the tenant flow asking every visitor without a session to log in
SubdomainDecision_GateAll(r, sess, sub, appHost, res, headers) ==
  IF res.error \/ res.data = NullRow
  THEN RootRedirect(appHost)
  ELSE IF sess = "session" /\ r.pathname = <<"/">>
  THEN Redirect(<<"/", "dashboard">>, RequestUrl(r))
  ELSE IF sess = "null"
  THEN Redirect(<<"/", "login">>, RequestUrl(r))
  ELSE NextWith(SetOrgHeaders(headers, res.data.id, sub))

\* handleSubdomain after the lookup returned res, lines 52-73
SubdomainDecision(r, sess, sub, appHost, res, headers) ==
  IF res.error \/ res.data = NullRow
  THEN RootRedirect(appHost)
  ELSE IF sess = "session" /\ r.pathname = <<"/">>
  THEN Redirect(<<"/", "dashboard">>, RequestUrl(r))
  ELSE IF StartsWith(r.pathname, <<"/", "dashboard">>) /\ sess = "null"
  THEN Redirect(<<"/", "login">>, RequestUrl(r))
  ELSE NextWith(SetOrgHeaders(headers, res.data.id, sub))

\* ------------------------------------------- registration and onboarding
\* The columns of organizations other than id, subdomain and status are
\* kept per id in details.  The browser pages are the clients of reg.
Clients == {"r1", "r2"}

NoId == "none"

\* columns name, address, primary_color, logo_url
Details0 == [name |-> "n0", address |-> "null", primary_color |-> "null",
             logo_url |-> "null"]

\* the subdomain field of the register form; <<>> is a value shorter than
\* three characters
FormSubdomains == {<<>>, <<"b">>, <<"c">>}

\* registerFormSchema.subdomain: min(3), max(20), /^[a-z0-9-]+$/
ZodSubdomain(sub) == Len(sub) >= 1 /\ ~Includes(sub, ".")

Client0 == [pc |-> "form", subdomain |-> <<>>, available |-> "null", orgId |-> NoId]

\* an INSERT that ignores the UNIQUE constraint on subdomain
InsertOrganization_NoUnique(store, row) ==
  IF \/ \E r \in store : r.id = row.id
     \/ ~ValidSubdomain(row.subdomain)
     \/ row.status \notin Statuses
  THEN [error |-> TRUE, store |-> store]
  ELSE [error |-> FALSE, store |-> store \cup {row}]

\* INSERT INTO organizations under PRIMARY KEY, UNIQUE and the CHECKs
InsertOrganization(store, row) ==
  IF \/ \E r \in store : r.id = row.id \/ r.subdomain = row.subdomain
     \/ ~ValidSubdomain(row.subdomain)
     \/ row.status \notin Statuses
  THEN [error |-> TRUE, store |-> store]
  ELSE [error |-> FALSE, store |-> store \cup {row}]

\* the value a patch gives a column, or the present value
Patched(patch, col, old) == IF col \in DOMAIN patch THEN patch[col] ELSE old

\* UPDATE organizations SET patch WHERE id = id, on the three key columns
UpdateRows(store, id, patch) ==
  {IF r.id = id
   THEN [id |-> r.id,
         subdomain |-> Patched(patch, "subdomain", r.subdomain),
         status |-> Patched(patch, "status", r.status)]
   ELSE r : r \in store}

\* the same UPDATE on the other columns
UpdateDetails(det, store, id, patch) ==
  IF \E r \in store : r.id = id
  THEN [det EXCEPT ![id] =
          [name |-> Patched(patch, "name", det[id].name),
           address |-> Patched(patch, "address", det[id].address),
           primary_color |-> Patched(patch, "primary_color", det[id].primary_color),
           logo_url |-> Patched(patch, "logo_url", det[id].logo_url)]]
  ELSE det

\* a club-info update that also rewrites the subdomain from the club name
ClubInfoPatch_Subdomain == [name |-> "n1", address |-> "a1", subdomain |-> <<"n1">>]

\* the columns onClubInfoSubmit writes (phone and website go with address)
ClubInfoPatch == [name |-> "n1", address |-> "a1"]

\* the columns onBrandingSubmit writes
BrandingPatch(logoUrl) == [primary_color |-> "#336699", logo_url |-> logoUrl]

\* the subdomain field changes: checkSubdomainAvailability starts
RegTypeSubdomain(c) ==
  /\ reg[c].pc = "form"
  /\ \E sub \in FormSubdomains :
       reg' = [reg EXCEPT ![c].subdomain = sub,
                          ![c].available = IF sub = <<>> THEN "null" ELSE @,
                          ![c].pc = IF sub = <<>> THEN "form" ELSE "checking"]
  /\ UNCHANGED <<env, orgs, mwVars, obsVars, details, subscriptions>>

\* checkSubdomainAvailability, lines 82-93: the query settles
RegCheckReturn(c) ==
  /\ reg[c].pc = "checking"
  /\ \E outcome \in {"query", "error", "throw"} :
       LET data == {r \in orgs : r.subdomain = reg[c].subdomain}
           avail == IF outcome = "query" /\ data # {} THEN "false" ELSE "true"
       IN reg' = [reg EXCEPT ![c].available = IF outcome = "throw" THEN @ ELSE avail,
                             ![c].pc = "form"]
  /\ UNCHANGED <<env, orgs, mwVars, obsVars, details, subscriptions>>

\* onSubmit, lines 97-116: the form is valid and not known to be taken
RegSubmit(c) ==
  /\ reg[c].pc = "form"
  /\ ZodSubdomain(reg[c].subdomain)
  /\ reg[c].available # "false"
  /\ reg' = [reg EXCEPT ![c].pc = "insertOrg"]
  /\ UNCHANGED <<env, orgs, mwVars, obsVars, details, subscriptions>>

\* onSubmit, lines 108-118: the organization insert settles
RegInsertOrgReturn(c) ==
  /\ reg[c].pc = "insertOrg"
  /\ \/ \E id \in OrgIds \ {r.id : r \in orgs} :
          LET res == InsertOrganization(orgs,
                       [id |-> id, subdomain |-> reg[c].subdomain, status |-> "trial"])
          IN /\ orgs' = res.store
             /\ details' = IF res.error THEN details
                            ELSE [details EXCEPT ![id] = Details0]
             /\ reg' = IF res.error
                        THEN [reg EXCEPT ![c].pc = "form"]
                        ELSE [reg EXCEPT ![c].pc = "insertSub", ![c].orgId = id]
     \/ /\ reg' = [reg EXCEPT ![c].pc = "form"]
        /\ UNCHANGED <<orgs, details>>
  /\ UNCHANGED <<env, mwVars, obsVars, subscriptions>>

\* onSubmit, lines 121-129: the subscription insert settles
RegInsertSubscriptionReturn(c) ==
  /\ reg[c].pc = "insertSub"
  /\ \/ /\ subscriptions' = subscriptions \cup {reg[c].orgId}
        /\ reg' = [reg EXCEPT ![c].pc = "signUp"]
     \/ /\ reg' = [reg EXCEPT ![c].pc = "form"]
        /\ UNCHANGED subscriptions
  /\ UNCHANGED <<env, orgs, mwVars, obsVars, details>>

\* onSubmit, lines 132-144: auth.signUp settles
RegSignUpReturn(c) ==
  /\ reg[c].pc = "signUp"
  /\ \E ok \in BOOLEAN :
       reg' = [reg EXCEPT ![c].pc = IF ok THEN "insertUser" ELSE "form"]
  /\ UNCHANGED <<env, orgs, mwVars, obsVars, details, subscriptions>>

\* onSubmit, lines 147-160: the users insert settles; on success the page
\* moves to /onboarding?org=id
RegInsertUserReturn(c) ==
  /\ reg[c].pc = "insertUser"
  /\ \E ok \in BOOLEAN :
       reg' = [reg EXCEPT ![c].pc = IF ok THEN "club-info" ELSE "form"]
  /\ UNCHANGED <<env, orgs, mwVars, obsVars, details, subscriptions>>

\* onClubInfoSubmit, lines 392-423; the update may match no row it is
\* allowed to write, or fail
OnClubInfoSubmit(c) ==
  /\ reg[c].pc = "club-info"
  /\ \E outcome \in {"updated", "norow", "error"} :
       /\ orgs' = IF outcome = "updated"
                  THEN UpdateRows(orgs, reg[c].orgId, ClubInfoPatch) ELSE orgs
       /\ details' = IF outcome = "updated"
                     THEN UpdateDetails(details, orgs, reg[c].orgId, ClubInfoPatch)
                     ELSE details
       /\ reg' = [reg EXCEPT ![c].pc = IF outcome = "error" THEN @ ELSE "branding"]
  /\ UNCHANGED <<env, mwVars, obsVars, subscriptions>>

\* onBrandingSubmit, lines 426-477
OnBrandingSubmit(c) ==
  /\ reg[c].pc = "branding"
  /\ \E outcome \in {"updated", "norow", "error"}, logoUrl \in {"null", "url"} :
       /\ orgs' = IF outcome = "updated"
                  THEN UpdateRows(orgs, reg[c].orgId, BrandingPatch(logoUrl)) ELSE orgs
       /\ details' = IF outcome = "updated"
                     THEN UpdateDetails(details, orgs, reg[c].orgId, BrandingPatch(logoUrl))
                     ELSE details
       /\ reg' = [reg EXCEPT ![c].pc = IF outcome = "error" THEN @ ELSE "invite"]
  /\ UNCHANGED <<env, mwVars, obsVars, subscriptions>>

\* onInviteTeamSubmit, lines 480-509: no write
OnInviteTeamSubmit(c) ==
  /\ reg[c].pc = "invite"
  /\ reg' = [reg EXCEPT ![c].pc = "complete"]
  /\ UNCHANGED <<env, orgs, mwVars, obsVars, details, subscriptions>>

RegInit ==
  /\ details = [i \in OrgIds |-> Details0]
  /\ subscriptions = {}
  /\ reg = [c \in Clients |-> Client0]

\* ------------------------------------------------------------------ state
\* no fetch issued, no flow entered
Calls0 == [getSession |-> 0, orgQuery |-> 0, flow |-> "none"]

\* nothing remembered, no second invocation
NoPrev ==
  [req |-> NoRequest, session |-> "unfetched", lookup |-> "none", response |-> Pending]

Context0 ==
  [pc |-> "idle", req |-> NoRequest, session |-> "unfetched", lookup |-> "none",
   requestHeaders |-> Headers0, response |-> Pending]

\* auth-provider.tsx, lines 29-31 and 66: user and session are null, the
\* page is loading and fetchSession has called getSession; no callback of
\* onAuthStateChange is waiting for a profile
Accounts == {"u1", "u2"}

Provider0 ==
  [user |-> "null", session |-> "null", isLoading |-> TRUE,
   fetchSession |-> "getSession", profileOf |-> "null",
   callbacks |-> [u \in Accounts |-> 0], events |-> 0]

ObsInit ==
  /\ prev = NoPrev
  /\ peer = Context0
  /\ provider = Provider0

Init ==
  /\ RegInit
  /\ ObsInit
  /\ env \in Envs
  /\ orgs \in Stores
  /\ pc = "idle"
  /\ req = NoRequest
  /\ session = "unfetched"
  /\ lookup = "none"
  /\ requestHeaders = Headers0
  /\ response = Pending
  /\ calls = Calls0

\* a request reaches the middleware hook
NewRequest ==
  /\ pc = "idle"
  /\ \E h \in Hostnames, p \in Pathnames, a \in SessionStates :
       req' = [hostname |-> h, pathname |-> p, auth |-> a, headers |-> Headers0]
  /\ pc' = "entry"
  /\ UNCHANGED <<env, orgs, session, lookup, requestHeaders, response, calls,
                 regVars, obsVars>>

\* one header map kept by the module and reused by every invocation
CloneHeaders_Shared(r) == requestHeaders

\* line 101, new Headers(request.headers): a fresh map per invocation,
\* holding what the inbound request holds
CloneHeaders(r) == r.headers

\* the organization query is started without awaiting getSession
MiddlewareEntry_NoAwait ==
  /\ pc = "entry"
  /\ IF ~env.supabaseUrl \/ ~env.supabaseKey
     THEN /\ pc' = "done" /\ response' = NextPlain
          /\ requestHeaders' = requestHeaders /\ calls' = calls
     ELSE /\ requestHeaders' = CloneHeaders(req)
          /\ IF IsStaticOrApiRoute(req.pathname)
             THEN pc' = "done" /\ response' = NextPlain /\ calls' = calls
             ELSE /\ pc' = "orgLookup" /\ response' = response
                  /\ calls' = [calls EXCEPT !.getSession = @ + 1, !.orgQuery = @ + 1,
                                            !.flow = "tenant"]
  /\ UNCHANGED <<env, orgs, req, session, lookup, regVars, obsVars>>

\* middleware, lines 80-113, up to the await of getSession
MiddlewareEntry ==
  /\ pc = "entry"
  /\ IF ~env.supabaseUrl \/ ~env.supabaseKey
     THEN /\ pc' = "done" /\ response' = NextPlain
          /\ requestHeaders' = requestHeaders /\ calls' = calls
     ELSE /\ requestHeaders' = CloneHeaders(req)
          /\ IF IsStaticOrApiRoute(req.pathname)
             THEN pc' = "done" /\ response' = NextPlain /\ calls' = calls
             ELSE /\ pc' = "getSession" /\ response' = response
                  /\ calls' = [calls EXCEPT !.getSession = @ + 1]
  /\ UNCHANGED <<env, orgs, req, session, lookup, regVars, obsVars>>

\* middleware, lines 113-131: getSession settles, the host is classified
GetSessionReturn ==
  /\ pc = "getSession"
  /\ \E s \in {req.auth, "throw"} :
       /\ session' = s
       /\ LET appHost == AppHost(env.appUrl)
              isRootDomain == IsRootDomain(req.hostname, appHost)
              subdomain == Subdomain(req.hostname, appHost)
          IN IF s = "throw"
             THEN pc' = "done" /\ response' = Throw /\ calls' = calls
             ELSE IF isRootDomain /\ subdomain = appHost
             THEN /\ pc' = "done"
                  /\ response' = HandleRootDomain(req, s, requestHeaders)
                  /\ calls' = [calls EXCEPT !.flow = "root"]
             ELSE IF subdomain # appHost
             THEN /\ pc' = "orgLookup" /\ response' = response
                  /\ calls' = [calls EXCEPT !.flow = "tenant", !.orgQuery = @ + 1]
             ELSE /\ pc' = "done" /\ response' = NextWith(requestHeaders)
                  /\ calls' = [calls EXCEPT !.flow = "default"]
  /\ UNCHANGED <<env, orgs, req, lookup, requestHeaders, regVars, obsVars>>

\* a failed query is issued once more before the fallback
AfterLookup_RetryOnError(outcome) ==
  IF outcome = "error" /\ calls.orgQuery < 2 THEN "orgLookup" ELSE "done"

\* lines 52-77: whatever the query gave, handleSubdomain returns; there is
\* no loop around the await
AfterLookup(outcome) == "done"

\* a lookup that writes: it marks the rows of the subdomain active
OrgLookupReturn_Activates ==
  /\ pc = "orgLookup"
  /\ LET appHost == AppHost(env.appUrl)
         subdomain == Subdomain(req.hostname, appHost)
     IN \E outcome \in {"query", "error", "throw"} :
          LET res == IF outcome = "query"
                     THEN Single(ActiveBySubdomain(orgs, subdomain))
                     ELSE [data |-> NullRow, error |-> TRUE]
              dec == IF outcome = "throw" THEN HandleSubdomainCatch(appHost)
                     ELSE SubdomainDecision(req, session, subdomain, appHost, res, requestHeaders)
          IN /\ lookup' = IF outcome = "query"
                          THEN (IF res.error THEN "notfound" ELSE "found")
                          ELSE outcome
             /\ requestHeaders' =
                  IF outcome = "query" /\ ~res.error
                  THEN SetOrgHeaders(requestHeaders, res.data.id, subdomain)
                  ELSE requestHeaders
             /\ response' = dec
             /\ pc' = AfterLookup(outcome)
             /\ calls' = IF AfterLookup(outcome) = "orgLookup"
                         THEN [calls EXCEPT !.orgQuery = @ + 1] ELSE calls
  /\ orgs' = {IF r.subdomain = Subdomain(req.hostname, AppHost(env.appUrl))
              THEN [r EXCEPT !.status = "active"] ELSE r : r \in orgs}
  /\ UNCHANGED <<env, req, session, regVars, obsVars>>

\* handleSubdomain, lines 43-78: the organization query settles
OrgLookupReturn ==
  /\ pc = "orgLookup"
  /\ LET appHost == AppHost(env.appUrl)
         subdomain == Subdomain(req.hostname, appHost)
     IN \E outcome \in {"query", "error", "throw"} :
          LET res == IF outcome = "query"
                     THEN Single(ActiveBySubdomain(orgs, subdomain))
                     ELSE [data |-> NullRow, error |-> TRUE]
              dec == IF outcome = "throw" THEN HandleSubdomainCatch(appHost)
                     ELSE SubdomainDecision(req, session, subdomain, appHost, res, requestHeaders)
          IN /\ lookup' = IF outcome = "query"
                          THEN (IF res.error THEN "notfound" ELSE "found")
                          ELSE outcome
             /\ requestHeaders' =
                  IF outcome = "query" /\ ~res.error
                  THEN SetOrgHeaders(requestHeaders, res.data.id, subdomain)
                  ELSE requestHeaders
             /\ response' = dec
             /\ pc' = AfterLookup(outcome)
             /\ calls' = IF AfterLookup(outcome) = "orgLookup"
                         THEN [calls EXCEPT !.orgQuery = @ + 1] ELSE calls
  /\ UNCHANGED <<env, orgs, req, session, regVars, obsVars>>

\* the response is handed to the framework and the request context is dropped
Finish ==
  /\ pc = "done"
  /\ pc' = "idle"
  /\ req' = NoRequest
  /\ session' = "unfetched"
  /\ lookup' = "none"
  /\ requestHeaders' = Headers0
  /\ response' = Pending
  /\ calls' = Calls0
  /\ UNCHANGED <<env, orgs, regVars, obsVars>>

Next == NewRequest \/ MiddlewareEntry \/ GetSessionReturn \/ OrgLookupReturn \/ Finish

Spec == Init /\ [][Next]_vars

\* ------------------------------------------- client-supplied tenant headers
\* a request whose sender wrote x-organization-* headers itself
NewRequestWithTenantHeaders ==
  /\ pc = "idle"
  /\ \E h \in Hostnames, p \in Pathnames, a \in SessionStates :
       req' = [hostname |-> h, pathname |-> p, auth |-> a,
               headers |-> ClientTenantHeaders]
  /\ pc' = "entry"
  /\ UNCHANGED <<env, orgs, session, lookup, requestHeaders, response, calls,
                 regVars, obsVars>>

InitInbound ==
  /\ env = [supabaseUrl |-> TRUE, supabaseKey |-> TRUE,
            appUrl |-> <<"https://", "b", ".", "c">>]
  /\ orgs \in {st \in Stores : Cardinality(st) <= 1}
  /\ pc = "idle"
  /\ req = NoRequest
  /\ session = "unfetched"
  /\ lookup = "none"
  /\ requestHeaders = Headers0
  /\ response = Pending
  /\ calls = Calls0
  /\ RegInit
  /\ ObsInit

NextInbound ==
  \/ NewRequest \/ NewRequestWithTenantHeaders
  \/ MiddlewareEntry \/ GetSessionReturn \/ OrgLookupReturn \/ Finish

SpecInbound == InitInbound /\ [][NextInbound]_vars

\* ------------------------------------------------------------ AuthProvider
\* fetchSession, lines 51-64: getSession settles; a session with a user
\* starts the profile fetch, anything else ends the loading
AuthGetSessionReturn ==
  /\ provider.fetchSession = "getSession"
  /\ \E s \in Accounts \cup {"null", "throw"} :
       provider' =
         IF s = "throw"
         THEN [provider EXCEPT !.fetchSession = "done", !.isLoading = FALSE]
         ELSE IF s = "null"
         THEN [provider EXCEPT !.session = "null", !.fetchSession = "done",
                               !.isLoading = FALSE]
         ELSE [provider EXCEPT !.session = s, !.fetchSession = "profile",
                               !.profileOf = s]
  /\ UNCHANGED <<env, orgs, mwVars, regVars, prev, peer>>

\* fetchUserProfile, lines 34-48, awaited by fetchSession at line 57
AuthInitialProfileReturn ==
  /\ provider.fetchSession = "profile"
  /\ \E ok \in BOOLEAN :
       provider' = [provider EXCEPT
                      !.user = IF ok THEN provider.profileOf ELSE "null",
                      !.fetchSession = "done",
                      !.isLoading = FALSE]
  /\ UNCHANGED <<env, orgs, mwVars, regVars, prev, peer>>

\* onAuthStateChange callback, lines 68-72, event SIGNED_IN: the session is
\* set and the callback waits for the profile
AuthSignedIn ==
  /\ provider.events < MaxEvents
  /\ \E u \in Accounts :
       provider' = [provider EXCEPT !.session = u,
                                    !.callbacks[u] = @ + 1,
                                    !.events = @ + 1]
  /\ UNCHANGED <<env, orgs, mwVars, regVars, prev, peer>>

\* onAuthStateChange callback, lines 68-75, event SIGNED_OUT
AuthSignedOut ==
  /\ provider.events < MaxEvents
  /\ provider' = [provider EXCEPT !.session = "null", !.user = "null",
                                  !.events = @ + 1]
  /\ UNCHANGED <<env, orgs, mwVars, regVars, prev, peer>>

\* fetchUserProfile, lines 34-48, awaited by a SIGNED_IN callback
AuthCallbackProfileReturn ==
  /\ \E u \in Accounts, ok \in BOOLEAN :
       /\ provider.callbacks[u] > 0
       /\ provider' = [provider EXCEPT !.user = IF ok THEN u ELSE "null",
                                       !.callbacks[u] = @ - 1]
  /\ UNCHANGED <<env, orgs, mwVars, regVars, prev, peer>>

InitAuth ==
  /\ env = [supabaseUrl |-> TRUE, supabaseKey |-> TRUE,
            appUrl |-> <<"https://", "b", ".", "c">>]
  /\ orgs = {}
  /\ pc = "idle"
  /\ req = NoRequest
  /\ session = "unfetched"
  /\ lookup = "none"
  /\ requestHeaders = Headers0
  /\ response = Pending
  /\ calls = Calls0
  /\ RegInit
  /\ ObsInit

NextAuth ==
  \/ AuthGetSessionReturn \/ AuthInitialProfileReturn
  \/ AuthSignedIn \/ AuthSignedOut \/ AuthCallbackProfileReturn

SpecAuth == InitAuth /\ [][NextAuth]_vars

\* ------------------------------------------------------ followed redirects
\* The client follows the redirect of lines 24, 54, 63, 68 or 76: a new
\* request for the redirect's URL, from the same caller with the same
\* headers.  A redirect built on request.url keeps the host; the fallback
\* names https://{appHost}/.  The redirected request is remembered.
FollowRedirect ==
  /\ pc = "done"
  /\ response.kind = "redirect"
  /\ prev' = [req |-> req, session |-> session, lookup |-> lookup,
              response |-> response]
  /\ req' = [hostname |-> IF response.scheme = "request"
                          THEN req.hostname ELSE response.host,
             pathname |-> response.path,
             auth |-> req.auth,
             headers |-> req.headers]
  /\ pc' = "entry"
  /\ session' = "unfetched"
  /\ lookup' = "none"
  /\ requestHeaders' = Headers0
  /\ response' = Pending
  /\ calls' = Calls0
  /\ UNCHANGED <<env, orgs, regVars, peer, provider>>

\* the response is handed over and the client starts nothing from it
FinishChain ==
  /\ pc = "done"
  /\ pc' = "idle"
  /\ req' = NoRequest
  /\ session' = "unfetched"
  /\ lookup' = "none"
  /\ requestHeaders' = Headers0
  /\ response' = Pending
  /\ calls' = Calls0
  /\ prev' = NoPrev
  /\ UNCHANGED <<env, orgs, regVars, peer, provider>>

\* every deployment with its three variables set
InitFollow ==
  /\ env \in {e \in Envs : e.supabaseUrl /\ e.supabaseKey /\ e.appUrl # Undefined}
  /\ orgs \in Stores
  /\ pc = "idle"
  /\ req = NoRequest
  /\ session = "unfetched"
  /\ lookup = "none"
  /\ requestHeaders = Headers0
  /\ response = Pending
  /\ calls = Calls0
  /\ RegInit
  /\ ObsInit

NextFollow ==
  \/ NewRequest \/ MiddlewareEntry \/ GetSessionReturn \/ OrgLookupReturn
  \/ FollowRedirect \/ FinishChain

SpecFollow == InitFollow /\ [][NextFollow]_vars

\* ------------------------------------------------ concurrent invocations
\* The same three steps as functions of one invocation's context: every
\* local of middleware() and handleSubdomain() belongs to the invocation.

\* lines 80-113, up to the await of getSession
EntryStep(c) ==
  IF ~env.supabaseUrl \/ ~env.supabaseKey
  THEN [c EXCEPT !.pc = "done", !.response = NextPlain]
  ELSE IF IsStaticOrApiRoute(c.req.pathname)
  THEN [c EXCEPT !.pc = "done", !.response = NextPlain,
                 !.requestHeaders = CloneHeaders(c.req)]
  ELSE [c EXCEPT !.pc = "getSession", !.requestHeaders = CloneHeaders(c.req)]

\* lines 113-131
SessionStep(c, s) ==
  LET appHost == AppHost(env.appUrl)
      isRootDomain == IsRootDomain(c.req.hostname, appHost)
      subdomain == Subdomain(c.req.hostname, appHost)
      c1 == [c EXCEPT !.session = s]
  IN IF s = "throw"
     THEN [c1 EXCEPT !.pc = "done", !.response = Throw]
     ELSE IF isRootDomain /\ subdomain = appHost
     THEN [c1 EXCEPT !.pc = "done",
                     !.response = HandleRootDomain(c.req, s, c.requestHeaders)]
     ELSE IF subdomain # appHost
     THEN [c1 EXCEPT !.pc = "orgLookup"]
     ELSE [c1 EXCEPT !.pc = "done", !.response = NextWith(c.requestHeaders)]

\* handleSubdomain, lines 43-78
LookupStep(c, outcome) ==
  LET appHost == AppHost(env.appUrl)
      subdomain == Subdomain(c.req.hostname, appHost)
      res == IF outcome = "query"
             THEN Single(ActiveBySubdomain(orgs, subdomain))
             ELSE [data |-> NullRow, error |-> TRUE]
  IN [c EXCEPT
        !.pc = "done",
        !.lookup = IF outcome = "query"
                   THEN (IF res.error THEN "notfound" ELSE "found")
                   ELSE outcome,
        !.requestHeaders = IF outcome = "query" /\ ~res.error
                           THEN SetOrgHeaders(c.requestHeaders, res.data.id, subdomain)
                           ELSE c.requestHeaders,
        !.response = IF outcome = "throw" THEN HandleSubdomainCatch(appHost)
                     ELSE SubdomainDecision(c.req, c.session, subdomain, appHost,
                                            res, c.requestHeaders)]

\* the requests of the second invocation: a tenant host or the base host,
\* a page or the dashboard
PeerHostnames == {<<"c", ".", "b", ".", "c">>, <<"b", ".", "c">>}

PeerPathnames == {<<"/">>, <<"/", "dashboard">>}

PeerNewRequest ==
  /\ peer.pc = "idle"
  /\ \E h \in PeerHostnames, p \in PeerPathnames, a \in SessionStates :
       peer' = [Context0 EXCEPT !.pc = "entry",
                                !.req = [hostname |-> h, pathname |-> p, auth |-> a,
                                         headers |-> Headers0]]
  /\ UNCHANGED <<env, orgs, mwVars, regVars, prev, provider>>

PeerEntry ==
  /\ peer.pc = "entry"
  /\ peer' = EntryStep(peer)
  /\ UNCHANGED <<env, orgs, mwVars, regVars, prev, provider>>

PeerGetSessionReturn ==
  /\ peer.pc = "getSession"
  /\ \E s \in {peer.req.auth, "throw"} : peer' = SessionStep(peer, s)
  /\ UNCHANGED <<env, orgs, mwVars, regVars, prev, provider>>

\* a header map shared by the invocations: the tenant headers of the second
\* invocation are written into the map of the first
PeerOrgLookupReturn_SharedHeaders ==
  /\ peer.pc = "orgLookup"
  /\ \E outcome \in {"query", "error", "throw"} :
       /\ peer' = LookupStep(peer, outcome)
       /\ requestHeaders' = LookupStep(peer, outcome).requestHeaders
  /\ UNCHANGED <<env, orgs, pc, req, session, lookup, response, calls, regVars, prev, provider>>

PeerOrgLookupReturn ==
  /\ peer.pc = "orgLookup"
  /\ \E outcome \in {"query", "error", "throw"} : peer' = LookupStep(peer, outcome)
  /\ UNCHANGED <<env, orgs, mwVars, regVars, prev, provider>>

PeerFinish ==
  /\ peer.pc = "done"
  /\ peer' = Context0
  /\ UNCHANGED <<env, orgs, mwVars, regVars, prev, provider>>

InitConcurrent ==
  /\ env = [supabaseUrl |-> TRUE, supabaseKey |-> TRUE,
            appUrl |-> <<"https://", "b", ".", "c">>]
  /\ orgs \in {st \in Stores : \A r \in st : r.status = "active"}
  /\ pc = "idle"
  /\ req = NoRequest
  /\ session = "unfetched"
  /\ lookup = "none"
  /\ requestHeaders = Headers0
  /\ response = Pending
  /\ calls = Calls0
  /\ RegInit
  /\ ObsInit

NextConcurrent ==
  \/ NewRequest \/ MiddlewareEntry \/ GetSessionReturn \/ OrgLookupReturn \/ Finish
  \/ PeerNewRequest \/ PeerEntry \/ PeerGetSessionReturn \/ PeerOrgLookupReturn
  \/ PeerFinish

SpecConcurrent == InitConcurrent /\ [][NextConcurrent]_vars

\* ------------------------------------------------- repeated invocations
\* The locals of an invocation go out of scope at its return; what the next
\* invocation starts from is whatever line 101 gives it.  One earlier
\* request may be remembered together with its decision: one for the base
\* host, a tenant host or a foreign host, on a page, the dashboard or an API
\* route.
RepeatHostnames ==
  {<<"b", ".", "c">>, <<"b", ".", "b", ".", "c">>, <<"c", ".", "b", ".", "c">>, <<"c">>}

RepeatPathnames == {<<"/">>, <<"/", "dashboard">>, <<"/", "api">>}

FinishRecord ==
  /\ pc = "done"
  /\ pc' = "idle"
  /\ req' = NoRequest
  /\ session' = "unfetched"
  /\ lookup' = "none"
  /\ response' = Pending
  /\ calls' = Calls0
  /\ prev' \in {prev} \cup
               {[req |-> req, session |-> session, lookup |-> lookup,
                 response |-> response] :
                  x \in {y \in {req} : /\ prev = NoPrev
                                       /\ req.hostname \in RepeatHostnames
                                       /\ req.pathname \in RepeatPathnames}}
  /\ UNCHANGED <<env, orgs, requestHeaders, regVars, peer, provider>>

InitRepeat ==
  /\ env = [supabaseUrl |-> TRUE, supabaseKey |-> TRUE,
            appUrl |-> <<"https://", "b", ".", "c">>]
  /\ orgs \in {st \in Stores : /\ Cardinality(st) <= 1
                                /\ \A r \in st : r.status # "trial"}
  /\ pc = "idle"
  /\ req = NoRequest
  /\ session = "unfetched"
  /\ lookup = "none"
  /\ requestHeaders = Headers0
  /\ response = Pending
  /\ calls = Calls0
  /\ RegInit
  /\ ObsInit

NextRepeat ==
  NewRequest \/ MiddlewareEntry \/ GetSessionReturn \/ OrgLookupReturn \/ FinishRecord

SpecRepeat == InitRepeat /\ [][NextRepeat]_vars

\* the registration and onboarding pages of two browsers against one store
InitReg ==
  /\ env = [supabaseUrl |-> TRUE, supabaseKey |-> TRUE,
            appUrl |-> <<"https://", "b", ".", "c">>]
  /\ orgs \in {st \in Stores : Cardinality(st) <= 1}
  /\ pc = "idle"
  /\ req = NoRequest
  /\ session = "unfetched"
  /\ lookup = "none"
  /\ requestHeaders = Headers0
  /\ response = Pending
  /\ calls = Calls0
  /\ RegInit
  /\ ObsInit

NextReg ==
  \E c \in Clients :
    \/ RegTypeSubdomain(c)
    \/ RegCheckReturn(c)
    \/ RegSubmit(c)
    \/ RegInsertOrgReturn(c)
    \/ RegInsertSubscriptionReturn(c)
    \/ RegSignUpReturn(c)
    \/ RegInsertUserReturn(c)
    \/ OnClubInfoSubmit(c)
    \/ OnBrandingSubmit(c)
    \/ OnInviteTeamSubmit(c)

SpecReg == InitReg /\ [][NextReg]_vars

\* --------------------------------------------- from onboarding to the club
\* window.location.host of the onboarding page: the base host, or a host
\* one label below it
PageHosts == {<<"b", ".", "c">>, <<"c", ".", "b", ".", "c">>}

\* host.split('.').slice(1).join('.')
DropFirstLabel(h) ==
  IF IndexOf(h, <<".">>) = 0 THEN <<>>
  ELSE SubSeq(h, IndexOf(h, <<".">>) + 1, Len(h))

\* handleComplete, lines 511-536: the subdomain is read back by id; with a
\* row the browser loads {subdomain}.{host}/dashboard, without one (or on a
\* rejected query) it pushes /dashboard on the page's own host.  Either
\* navigation is a request to the middleware.
HandleComplete(c) ==
  /\ reg[c].pc = "complete"
  /\ pc = "idle"
  /\ \E page \in PageHosts, a \in SessionStates, outcome \in {"query", "throw"} :
       LET res == IF outcome = "query"
                  THEN Single({r \in orgs : r.id = reg[c].orgId})
                  ELSE [data |-> NullRow, error |-> TRUE]
           hasSub == ~res.error /\ res.data.subdomain # <<>>
       IN /\ req' = [hostname |-> IF hasSub
                                  THEN res.data.subdomain \o <<".">> \o DropFirstLabel(page)
                                  ELSE page,
                     pathname |-> <<"/", "dashboard">>,
                     auth |-> a,
                     headers |-> Headers0]
          /\ reg' = [reg EXCEPT ![c].pc = IF hasSub THEN "dashboard" ELSE "fallback"]
  /\ pc' = "entry"
  /\ UNCHANGED <<env, orgs, session, lookup, requestHeaders, response, calls,
                 details, subscriptions, obsVars>>

InitOnboard ==
  /\ env = [supabaseUrl |-> TRUE, supabaseKey |-> TRUE,
            appUrl |-> <<"https://", "b", ".", "c">>]
  /\ orgs = {}
  /\ pc = "idle"
  /\ req = NoRequest
  /\ session = "unfetched"
  /\ lookup = "none"
  /\ requestHeaders = Headers0
  /\ response = Pending
  /\ calls = Calls0
  /\ RegInit
  /\ ObsInit

NextOnboard ==
  \/ NextReg
  \/ \E c \in Clients : HandleComplete(c)
  \/ MiddlewareEntry \/ GetSessionReturn \/ OrgLookupReturn \/ Finish

SpecOnboard == InitOnboard /\ [][NextOnboard]_vars

\* ============================================================ properties
\* The notions below are written from the statements they check, not from
\* the operators of the middleware.

\* the router has its lookup credentials and a base host
ConfigPresent == env.supabaseUrl /\ env.supabaseKey /\ env.appUrl # Undefined

\* the configured base host: the application URL without its scheme
BaseHost == Tail(env.appUrl)

\* the hostname is {sub}.{baseHost} with a non-empty {sub}
TenantHost ==
  /\ Len(req.hostname) > Len(BaseHost) + 1
  /\ SubSeq(req.hostname, Len(req.hostname) - Len(BaseHost), Len(req.hostname))
       = <<".">> \o BaseHost

\* the {sub} of a hostname {sub}.{baseHost}
SubOfHost == SubSeq(req.hostname, 1, Len(req.hostname) - Len(BaseHost) - 1)

ForeignHost == req.hostname # BaseHost /\ ~TenantHost

BypassPath ==
  \/ Len(req.pathname) >= 2 /\ req.pathname[2] \in {"_next", "api", "static"}
  \/ \E i \in DOMAIN req.pathname : req.pathname[i] = "."

DashboardPath == Len(req.pathname) >= 2 /\ req.pathname[2] = "dashboard"

Done == pc = "done"

\* the session lookup of the request did not fail
SessionAnswered == session # "throw"

\* the organization lookup of the request did not fail
LookupAnswered == lookup \notin {"error", "throw"}

RedirectedTo(scheme, host, path) ==
  response = [kind |-> "redirect", scheme |-> scheme, host |-> host, path |-> path]

RedirectedToLogin == RedirectedTo("request", req.hostname, <<"/", "login">>)

RedirectedToDashboard == RedirectedTo("request", req.hostname, <<"/", "dashboard">>)

RedirectedToRoot == RedirectedTo("https", BaseHost, <<"/">>)

Forwarded == response.kind = "next"

ForwardedUnchanged == Forwarded /\ response.headers = Headers0

ActiveOrgs(sub) == {o \in orgs : o.subdomain = sub /\ o.status = "active"}

\* the router takes the hostname through the tenant flow and its query
\* finds an active organization
ResolvesToActive ==
  /\ Subdomain(req.hostname, AppHost(env.appUrl)) # AppHost(env.appUrl)
  /\ ActiveOrgs(Subdomain(req.hostname, AppHost(env.appUrl))) # {}

\* C1 as stated: on the base host every /dashboard* request without a
\* session is redirected to /login, and with a session is forwarded
\* unchanged.
C1_AsStated ==
  (Done /\ ConfigPresent /\ req.hostname = BaseHost /\ DashboardPath
     /\ SessionAnswered)
  => /\ req.auth = "null" => RedirectedToLogin
     /\ req.auth = "session" => ForwardedUnchanged

\* C1 amended: on the base host every /dashboard* request whose path is not
\* a bypass path is redirected to /login on the same host when there is no
\* session, and forwarded unchanged when there is one.
C1_RootDashboardGate ==
  (Done /\ ConfigPresent /\ req.hostname = BaseHost /\ DashboardPath
     /\ ~BypassPath /\ SessionAnswered)
  => /\ req.auth = "null" => RedirectedToLogin
     /\ req.auth = "session" => ForwardedUnchanged

C1_Witness ==
  /\ Done /\ ConfigPresent /\ req.hostname = BaseHost
  /\ req.pathname = <<"/", "dashboard", "x">>
  /\ req.auth = "null" /\ session = "null"
  /\ RedirectedToLogin

\* C2 as stated: a request to {sub}.{baseHost}, {sub} not the subdomain of
\* an active organization, is redirected to https://{baseHost}/.
C2_InvalidTenantRedirects ==
  (Done /\ ConfigPresent /\ TenantHost /\ ~BypassPath /\ SessionAnswered
     /\ ActiveOrgs(SubOfHost) = {})
  => RedirectedToRoot

\* C3 as stated: a request to {sub}.{baseHost}, {sub} the subdomain of an
\* active organization, that is forwarded carries that organization's id
\* and {sub} in the two x-organization headers.
C3_ForwardCarriesTenant ==
  (Done /\ ConfigPresent /\ TenantHost /\ ~BypassPath
     /\ ActiveOrgs(SubOfHost) # {} /\ Forwarded)
  => \E o \in ActiveOrgs(SubOfHost) :
        response.headers = [xOrganizationId |-> {o.id},
                            xOrganizationSubdomain |-> {SubOfHost}]

\* C4 as stated: a request to {sub}.{baseHost} whose organization is trial
\* or inactive is redirected to https://{baseHost}/ and never forwarded
\* with that organization's id.
C4_InactiveNeverResolves ==
  (Done /\ ConfigPresent /\ TenantHost /\ ~BypassPath /\ SessionAnswered
     /\ \E o \in orgs : o.subdomain = SubOfHost /\ o.status # "active")
  => /\ RedirectedToRoot
     /\ lookup # "found"

\* C5: on a tenant hostname that resolves to an active organization, a
\* request with a session and the path / is redirected to /dashboard on the
\* same host.
C5_SignedInRootToDashboard ==
  (Done /\ ConfigPresent /\ TenantHost /\ ResolvesToActive
     /\ SessionAnswered /\ LookupAnswered
     /\ req.auth = "session" /\ req.pathname = <<"/">>)
  => RedirectedToDashboard

C5_Witness ==
  /\ Done /\ ConfigPresent /\ TenantHost /\ lookup = "found"
  /\ req.auth = "session" /\ req.pathname = <<"/">>
  /\ RedirectedToDashboard

\* C6 as stated: on a tenant hostname that resolves to an active
\* organization, every /dashboard* request without a session is redirected
\* to /login and never forwarded.
C6_AsStated ==
  (Done /\ ConfigPresent /\ TenantHost /\ ResolvesToActive
     /\ SessionAnswered /\ LookupAnswered
     /\ DashboardPath /\ req.auth = "null")
  => RedirectedToLogin

\* C6 amended: on a tenant hostname that resolves to an active
\* organization, every /dashboard* request whose path is not a bypass path
\* and that has no session is redirected to /login on the same host.
C6_TenantDashboardGate ==
  (Done /\ ConfigPresent /\ TenantHost /\ ResolvesToActive
     /\ SessionAnswered /\ LookupAnswered
     /\ DashboardPath /\ ~BypassPath /\ req.auth = "null")
  => RedirectedToLogin

C6_Witness ==
  /\ Done /\ ConfigPresent /\ TenantHost /\ lookup = "found"
  /\ req.pathname = <<"/", "dashboard", "x">> /\ req.auth = "null"
  /\ RedirectedToLogin

\* C7: a request whose path starts with /_next, /api or /static, or holds a
\* dot, is forwarded with no redirect and no tenant headers, whatever the
\* hostname, the session and the store are.
C7_BypassForwardedUnchanged ==
  (Done /\ BypassPath) => ForwardedUnchanged

C7_Witness ==
  /\ Done /\ ConfigPresent /\ TenantHost /\ ActiveOrgs(SubOfHost) = {}
  /\ req.pathname = <<"/", "dashboard", ".">> /\ req.auth = "null"
  /\ ForwardedUnchanged

\* C8 as stated: a non-bypass request to a foreign hostname is redirected
\* to https://{baseHost}/; it never resolves to an organization and is
\* never forwarded.
C8_ForeignHostRedirects ==
  (Done /\ ConfigPresent /\ ForeignHost /\ ~BypassPath /\ SessionAnswered)
  => RedirectedToRoot /\ lookup # "found"

\* C9 as stated: an exception in session resolution or in the tenant flow
\* does not leave the middleware; the request ends with the redirect to
\* https://{baseHost}/.
C9_ExceptionsBecomeRootRedirect ==
  (Done /\ ConfigPresent /\ (session = "throw" \/ lookup = "throw"))
  => RedirectedToRoot

\* C10 as stated: when the session fetch throws the middleware does not
\* crash; the request ends with a forward or a redirect, as an anonymous
\* request would.
C10_SessionFailureRecovered ==
  (Done /\ session = "throw") => response.kind \in {"next", "redirect"}

\* C11: with a base host configured, an organization lookup that returns an
\* error value or throws is answered like one that finds nothing: a
\* redirect to https://{baseHost}/, which carries no tenant header.
C11_LookupFailureIsNotFound ==
  (Done /\ ConfigPresent /\ lookup \in {"notfound", "error", "throw"})
  => RedirectedToRoot

C11_Witness ==
  /\ Done /\ ConfigPresent /\ TenantHost /\ ActiveOrgs(SubOfHost) # {}
  /\ lookup = "throw"
  /\ RedirectedToRoot

\* C12 as stated: when the base host or a lookup credential is missing,
\* every request is passed through unmodified with no lookup, no redirect
\* and no failure.
C12_MissingConfigPassesThrough ==
  (Done /\ ~ConfigPresent /\ SessionAnswered)
  => ForwardedUnchanged /\ session = "unfetched" /\ lookup = "none"

\* C14: every redirect goes to /login or /dashboard on the scheme and host
\* of the request, or to https://{baseHost}/.
C14_RedirectTargets ==
  (Done /\ response.kind = "redirect")
  => \/ RedirectedToLogin
     \/ RedirectedToDashboard
     \/ env.appUrl # Undefined /\ RedirectedToRoot

C14_Witness ==
  /\ Done /\ ConfigPresent /\ TenantHost /\ lookup = "notfound"
  /\ RedirectedToRoot

\* C15 as stated: every request ends in FORWARD or REDIRECT, whatever the
\* two lookups return.
C15_TerminalForwardOrRedirect ==
  Done => response.kind \in {"next", "redirect"}

\* C20: a request on a bypass path is forwarded with neither the session
\* lookup nor the organization lookup performed.
C20_BypassWithoutLookups ==
  (Done /\ BypassPath) => Forwarded /\ session = "unfetched" /\ lookup = "none"

C20_Witness ==
  /\ Done /\ ConfigPresent /\ TenantHost /\ ActiveOrgs(SubOfHost) # {}
  /\ req.pathname = <<"/", "api", "x">> /\ req.auth = "session"
  /\ Forwarded /\ session = "unfetched" /\ lookup = "none"

\* C18: after any registration submissions, concurrent ones included, no
\* two organizations have the same subdomain.
C18_SubdomainUnique ==
  \A r1, r2 \in orgs : r1.subdomain = r2.subdomain => r1 = r2

\* two submissions for one subdomain that both saw it available have both
\* settled, one with the row and one sent back to the form
C18_Witness ==
  /\ reg["r1"].subdomain = reg["r2"].subdomain
  /\ reg["r1"].available = "true" /\ reg["r2"].available = "true"
  /\ reg["r1"].pc = "insertSub" /\ reg["r2"].pc = "form"
  /\ \E r \in orgs : r.id = reg["r1"].orgId /\ r.subdomain = reg["r2"].subdomain

\* C19: no step of registration or onboarding changes the subdomain of an
\* organization that exists.
C19_SubdomainImmutable ==
  [][\A r \in orgs : \E q \in orgs' : q.id = r.id /\ q.subdomain = r.subdomain]_vars

\* an onboarding update has been applied to a registered organization
C19_Witness ==
  \E c \in Clients :
    /\ reg[c].pc = "invite"
    /\ details[reg[c].orgId].name = "n1"
    /\ details[reg[c].orgId].primary_color = "#336699"
    /\ \E r \in orgs : r.id = reg[c].orgId /\ r.subdomain = reg[c].subdomain

\* C17: no step of the middleware changes the organization store or the
\* session the auth service holds for the caller.
C17_RouterReadsOnly ==
  [][(pc \in {"entry", "getSession", "orgLookup"})
       => (orgs' = orgs /\ details' = details /\ (req.auth)' = req.auth)]_vars

\* a request went through the session lookup and the organization lookup
C17_Witness ==
  /\ Done /\ lookup = "found" /\ session = "session"
  /\ \E r \in orgs : r.status # "active"

\* C13: a request with the same hostname, path, session result and lookup
\* result as a remembered earlier one, against the same store, gets the same
\* decision (forward or redirect, target, tenant headers), whatever requests
\* were handled in between.
C13_SameRequestSameDecision ==
  (Done /\ prev # NoPrev /\ prev.req = req /\ prev.session = session
        /\ prev.lookup = lookup)
    => response = prev.response

\* a request to a non-tenant host is repeated and forwarded both times
C13_Witness ==
  /\ Done /\ prev # NoPrev /\ prev.req = req /\ prev.session = session
  /\ prev.lookup = lookup /\ ~TenantHost /\ Forwarded
  /\ requestHeaders = Headers0
  /\ response = prev.response

\* what an invocation returns when no other invocation runs: the three steps
\* in sequence from a fresh context, with the given fetch results
Alone(r, s, l) ==
  LET c0 == [Context0 EXCEPT !.pc = "entry", !.req = r]
      c1 == EntryStep(c0)
      c2 == IF c1.pc = "getSession" THEN SessionStep(c1, s) ELSE c1
      c3 == IF c2.pc = "orgLookup"
            THEN LookupStep(c2, IF l \in {"found", "notfound"} THEN "query" ELSE l)
            ELSE c2
  IN c3.response

\* C16: with two invocations interleaving at their suspension points, each
\* one's decision and forwarded headers are those it gets alone with the
\* same fetch results.
C16_ConcurrentAsAlone ==
  /\ Done => response = Alone(req, session, lookup)
  /\ peer.pc = "done" => peer.response = Alone(peer.req, peer.session, peer.lookup)

\* a tenant request is forwarded with its own tenant headers while the
\* other invocation, for another host, has failed or is still suspended at
\* its organization fetch
C16_Witness ==
  /\ Done /\ TenantHost /\ lookup = "found" /\ Forwarded
  /\ peer.req.hostname # req.hostname
  /\ \/ peer.pc = "orgLookup"
     \/ peer.pc = "done" /\ peer.response = Throw

\* C21: a request issues at most one session fetch and at most one
\* organization query; once the query has settled, failed or not, the
\* handler has returned; the query is issued in the tenant flow only.
C21_OneFetchEach ==
  /\ calls.getSession <= 1
  /\ calls.orgQuery <= 1
  /\ lookup # "none" => Done
  /\ calls.orgQuery >= 1 => calls.flow = "tenant"

C21_Witness ==
  /\ Done /\ lookup = "error" /\ calls.getSession = 1 /\ calls.orgQuery = 1

\* C22: whenever the organization query has been issued, the session
\* fetch of the request has already settled with the caller's session.
C22_SessionBeforeLookup ==
  (pc = "orgLookup" \/ calls.orgQuery >= 1 \/ lookup # "none")
    => calls.getSession = 1 /\ session \in {"session", "null"} /\ session = req.auth

C22_Witness ==
  /\ pc = "orgLookup" /\ calls.orgQuery = 1 /\ session = "session"
  /\ DashboardPath

\* C23 as stated: with configuration present a non-bypass request whose
\* session fetch settled is handled by the root flow or by the tenant flow,
\* never by the final pass-through.
C23_RootOrTenantFlow ==
  (Done /\ ConfigPresent /\ ~BypassPath /\ SessionAnswered)
    => calls.flow \in {"root", "tenant"}

\* C24: on a tenant hostname that resolves to an active organization, for
\* every non-bypass path and session: a session on / is redirected to
\* /dashboard, no session on /dashboard* is redirected to /login, and every
\* other request is forwarded with the organization's id and subdomain in
\* the two x-organization headers.
C24_TenantDecisionTable ==
  (Done /\ ConfigPresent /\ TenantHost /\ ResolvesToActive
     /\ SessionAnswered /\ LookupAnswered /\ ~BypassPath)
  => IF req.auth = "session" /\ req.pathname = <<"/">>
     THEN RedirectedToDashboard
     ELSE IF req.auth = "null" /\ DashboardPath
     THEN RedirectedToLogin
     ELSE /\ Forwarded
          /\ \E o \in ActiveOrgs(SubOfHost) :
                response.headers = [xOrganizationId |-> {o.id},
                                    xOrganizationSubdomain |-> {SubOfHost}]

\* a visitor without a session opens / of a tenant and is forwarded with
\* the tenant headers
C24_Witness ==
  /\ Done /\ ConfigPresent /\ TenantHost /\ lookup = "found"
  /\ req.auth = "null" /\ req.pathname = <<"/">>
  /\ Forwarded /\ response.headers.xOrganizationSubdomain = {SubOfHost}

\* C25 as stated: with configuration present, on every hostname, a
\* non-bypass /dashboard* request without a session is answered with a
\* redirect and never forwarded.
C25_DashboardNeverForwarded ==
  (Done /\ ConfigPresent /\ DashboardPath /\ ~BypassPath
     /\ SessionAnswered /\ req.auth = "null")
  => response.kind = "redirect"

\* the x-organization-* headers the downstream handler of a forwarded
\* request receives: the map given to next(), or the inbound ones when
\* next() is given none
PassedOn == IF response.init THEN response.headers ELSE req.headers

\* C26 as stated: the two x-organization headers passed on with a forwarded
\* request are absent or are those set by the request's own successful
\* organization lookup.
C26_TenantHeadersOnlyFromLookup ==
  (Done /\ Forwarded)
  => \/ PassedOn = Headers0
     \/ /\ lookup = "found"
        /\ \E o \in orgs : /\ o.status = "active"
                            /\ PassedOn = [xOrganizationId |-> {o.id},
                                            xOrganizationSubdomain |-> {o.subdomain}]

\* the request is the follow-up of a redirect, and its fetches gave what
\* they gave for the redirected request
FollowUpUnchanged ==
  /\ prev # NoPrev
  /\ session = prev.session
  /\ lookup \in {"none", prev.lookup}

\* C27: the request a client sends when it follows a redirect of the
\* middleware, with the session and the store as they were, is forwarded.
C27_RedirectThenForward ==
  (Done /\ ConfigPresent /\ FollowUpUnchanged) => Forwarded

\* a tenant that is not found sends the visitor to the main site, where the
\* request is forwarded
C27_Witness ==
  /\ Done /\ ConfigPresent /\ FollowUpUnchanged
  /\ prev.lookup = "notfound"
  /\ prev.response = [kind |-> "redirect", scheme |-> "https", host |-> BaseHost,
                      path |-> <<"/">>]
  /\ req.hostname = BaseHost /\ req.pathname = <<"/">>
  /\ Forwarded

\* the request in the middleware is the navigation of handleComplete to the
\* club's own host {subdomain}.{baseHost}
ArrivedFromOnboarding ==
  \E c \in Clients :
     /\ reg[c].pc = "dashboard"
     /\ req.hostname = reg[c].subdomain \o <<".">> \o BaseHost
     /\ req.pathname = <<"/", "dashboard">>

\* C28 as stated: the navigation of handleComplete to the new club's host
\* is resolved to the new organization and is not redirected to
\* https://{baseHost}/.
C28_NewClubResolves ==
  (Done /\ ArrivedFromOnboarding /\ SessionAnswered /\ LookupAnswered)
  => lookup = "found" /\ ~RedirectedToRoot

\* C29 as stated: when a submission fails after its organization insert,
\* neither the organization row nor a subscription row of that submission
\* remains.
C29_SubmitAllOrNothing ==
  \A c \in Clients :
     (reg[c].pc = "form" /\ reg[c].orgId # NoId)
     => /\ \A r \in orgs : r.id # reg[c].orgId
        /\ reg[c].orgId \notin subscriptions

\* no session fetch, callback or profile fetch of the provider is pending
ProviderQuiescent ==
  /\ provider.fetchSession = "done"
  /\ \A u \in Accounts : provider.callbacks[u] = 0

\* C30 as stated: once everything in flight has completed, the provider
\* holds a user only if it holds a session.
C30_UserOnlyWithSession ==
  ProviderQuiescent => (provider.user # "null" => provider.session # "null")

====
